---------------------------- MODULE Spec2Model ----------------------------
(***************************************************************************)
(* Model of justlep/scraper: the response-stream scanner (_processChunk,   *)
(* _doResolve), the fetch orchestrator (_requestHtml with its redirect     *)
(* recursion), the per-host request-frequency limiter                      *)
(* (validateRequestToHostFrequency) and the redirect bookkeeping of        *)
(* ScraperOpts.                                                            *)
(*                                                                         *)
(* Strings are sequences of one-character strings; indices in the helper   *)
(* operators are JavaScript's (0-based).                                   *)
(***************************************************************************)
EXTENDS Integers, Sequences, FiniteSets, TLC

VARIABLES
    opts,                               \* ScraperOpts instances, by configuration id
    nextAllowedRequestTimeByHostname,   \* the module-level Map of scraper.js
    now,                                \* the latest reading of Date.now()
    promise,                            \* the promise loadPageAsHtml awaits, by configuration
    ex,                                 \* the exchange in flight and its closure state
    hist,                               \* per-fetch observations (ghost state)
    lastGate                            \* the latest rate-limiter decision (ghost state)

vars == <<opts, nextAllowedRequestTimeByHostname, now, promise, ex, hist, lastGate>>

---------------------------------------------------------------------------
(* Bounds of the model *)

MaxBodyLen == 3
MaxBytesBound == 3
MaxChunkBuffer == 3
MaxCalls == 2
MaxRedirectsBound == 2
MaxHeaderLen == 5

(* Program constants *)

MAXIMUM_REQUEST_FREQUENCY_PER_HOST_IN_MILLIS == 3000
DEFAULT_MAX_SIZE == 10 * 1024 * 1024
DEFAULT_CHUNK_BUFFER_SIZE == 6000

Chars == {"a", "b", "x"}
Hosts == {"h1", "h2"}
Cfgs == {"c1", "c2"}

---------------------------------------------------------------------------
(* JavaScript string primitives *)

Min(a, b) == IF a <= b THEN a ELSE b
Max(a, b) == IF a >= b THEN a ELSE b
Clamp(i, n) == Max(0, Min(i, n))

\* s.substring(a, b): both ends clamped to [0, length], swapped when a > b
Substring(s, a, b) ==
    LET ca == Clamp(a, Len(s))
        cb == Clamp(b, Len(s))
    IN SubSeq(s, Min(ca, cb) + 1, Max(ca, cb))

\* s.substring(a)
SubstringFrom(s, a) == Substring(s, a, Len(s))

\* s.substr(start): a negative start counts from the end, clamped at 0
Substr(s, start) ==
    LET st == IF start < 0 THEN Max(Len(s) + start, 0) ELSE Min(start, Len(s))
    IN SubSeq(s, st + 1, Len(s))

MatchesAt(s, t, i) == i + Len(t) <= Len(s) /\ SubSeq(s, i + 1, i + Len(t)) = t

\* s.indexOf(t, from): the least index >= from (clamped) where t occurs, else -1
IndexOf(s, t, from) ==
    LET f == Clamp(from, Len(s))
        hits == {i \in f..Len(s) : MatchesAt(s, t, i)}
    IN IF hits = {} THEN -1 ELSE CHOOSE i \in hits : \A j \in hits : i <= j


---------------------------------------------------------------------------
(* ScraperOpts (src/lib/ScraperOpts.js) *)

\* _assertValidUrl: http(s) only, no media file name, parseable
AssertValidUrl(u) == u.protocol \in {"http:", "https:"} /\ ~u.media

\* a variant that never reports a redirect continuation
IsRedirectNever(o) == FALSE

\* ScraperOpts.isRedirect
IsRedirect(o) == o.totalRedirects # 0

\* The string updateForRedirect validates: the current origin is prepended
\* to a location starting with "/".
RedirectTarget(o, loc) ==
    IF loc.rooted
    THEN [protocol |-> o.url.protocol, hostname |-> o.url.hostname, media |-> loc.media]
    ELSE [protocol |-> loc.protocol, hostname |-> loc.hostname, media |-> loc.media]

\* a variant whose hop budget is one too large
UpdateForRedirectOneMore(o, loc) ==
    IF o.totalRedirects > o.maxRedirects
    THEN [error |-> "Redirect limit exceeded", opts |-> o]
    ELSE IF ~AssertValidUrl(RedirectTarget(o, loc))
         THEN [error |-> "Invalid url", opts |-> o]
         ELSE [error |-> "",
               opts |-> [o EXCEPT !.url = [protocol |-> RedirectTarget(o, loc).protocol,
                                           hostname |-> RedirectTarget(o, loc).hostname],
                                  !.totalRedirects = @ + 1]]

\* a variant that counts the hop before the new location is validated
UpdateForRedirectCountingFirst(o, loc) ==
    IF o.totalRedirects >= o.maxRedirects
    THEN [error |-> "Redirect limit exceeded", opts |-> o]
    ELSE IF ~AssertValidUrl(RedirectTarget(o, loc))
         THEN [error |-> "Invalid url", opts |-> [o EXCEPT !.totalRedirects = @ + 1]]
         ELSE [error |-> "",
               opts |-> [o EXCEPT !.url = [protocol |-> RedirectTarget(o, loc).protocol,
                                           hostname |-> RedirectTarget(o, loc).hostname],
                                  !.totalRedirects = @ + 1]]

\* this.#totalRedirects >= this.maxRedirects, for the JS number maxRedirects
\* (the field maxRedirects, plus one half when maxRedirectsHalf is set)
BudgetUsedUp(o) ==
    IF o.maxRedirectsHalf
    THEN o.totalRedirects > o.maxRedirects
    ELSE o.totalRedirects >= o.maxRedirects

\* ScraperOpts.withMaxRedirects(max), max = whole + (half ? 0.5 : 0): the error
\* thrown ("" when none) and the configuration afterwards
WithMaxRedirects(o, whole, half) ==
    IF (whole <= 0 /\ ~half) \/ whole < 0 \/ whole >= 5
    THEN [error |-> "Illegal value for maxRedirects", opts |-> o]
    ELSE [error |-> "",
          opts |-> [o EXCEPT !.maxRedirects = whole, !.maxRedirectsHalf = half]]

\* ScraperOpts.updateForRedirect: the error thrown ("" when none) and the
\* configuration afterwards
UpdateForRedirect(o, loc) ==
    IF BudgetUsedUp(o)
    THEN [error |-> "Redirect limit exceeded", opts |-> o]
    ELSE IF ~AssertValidUrl(RedirectTarget(o, loc))
         THEN [error |-> "Invalid url", opts |-> o]
         ELSE [error |-> "",
               opts |-> [o EXCEPT !.url = [protocol |-> RedirectTarget(o, loc).protocol,
                                           hostname |-> RedirectTarget(o, loc).hostname],
                                  !.totalRedirects = @ + 1]]

\* A header block is a string over HeaderChars; NoHeaders is the null (or
\* empty) block of a configuration without custom headers.
HeaderChars == {"c", "a", "-", ":", " ", "\"", "\n"}
NoHeaders == <<>>

\* ScraperOpts.withHeaders: the block is stored as given, without being parsed
WithHeaders(o, s) == [o EXCEPT !.headers = s]

---------------------------------------------------------------------------
(* parseWgetHeadersInto (src/lib/helpers.js) *)

\* the names HTTP_HEADER_LINE_REGEX lists by name (Cookie, Authorization,
\* Accept), scaled to the model's alphabet
ListedNames == {<<"c">>}

\* [a-z0-9]
IsAlnum(ch) == ch \in {"a", "c"}

\* String.prototype.trim
Trim(s) ==
    LET inked == {i \in 1..Len(s) : s[i] # " "}
    IN IF inked = {}
       THEN <<>>
       ELSE SubSeq(s, CHOOSE i \in inked : \A j \in inked : i <= j,
                      CHOOSE i \in inked : \A j \in inked : i >= j)

\* String.prototype.split('\n')
RECURSIVE SplitLines(_)
SplitLines(s) ==
    LET k == IndexOf(s, <<"\n">>, 0)
    IN IF k < 0 THEN <<s>> ELSE <<SubSeq(s, 1, k)>> \o SplitLines(SubstringFrom(s, k + 1))

\* the first group of HTTP_HEADER_LINE_REGEX:
\* Cookie|Authorization|Accept|[a-z0-9]+?-[a-z0-9-]+?
NameMatches(n) ==
    IF n \in ListedNames
    THEN TRUE
    ELSE \E k \in 2..(Len(n) - 1) :
            /\ n[k] = "-"
            /\ \A i \in 1..(k - 1) : IsAlnum(n[i])
            /\ \A i \in (k + 1)..Len(n) : IsAlnum(n[i]) \/ n[i] = "-"

\* HTTP_HEADER_LINE_REGEX.test(line), RegExp.$1 and RegExp.$2: the name group
\* holds no colon, so the colon of the pattern is the first one of the line;
\* the \s* around the groups leave them trimmed; the value group is [^"]+?
HeaderLineRegex(line) ==
    LET colon == IndexOf(line, <<":">>, 0)
        name == Trim(Substring(line, 0, colon))
        value == Trim(SubstringFrom(line, colon + 1))
    IN IF colon >= 0 /\ NameMatches(name) /\ value # <<>>
               /\ \A i \in 1..Len(value) : value[i] # "\""
       THEN [test |-> TRUE, name |-> name, value |-> value]
       ELSE [test |-> FALSE, name |-> <<>>, value |-> <<>>]

\* target[name] = value
PutHeader(target, name, value) ==
    {h \in target : h[1] # name} \cup {<<name, value>>}

\* the loop of parseWgetHeadersInto over the trimmed lines: the line named by
\* the error thrown (thrown FALSE when none) and the target afterwards
RECURSIVE ParseHeaderLines(_, _)
ParseHeaderLines(target, lines) ==
    IF lines = <<>>
    THEN [thrown |-> FALSE, line |-> <<>>, target |-> target]
    ELSE LET line == Trim(Head(lines))
             m == HeaderLineRegex(line)
         IN IF line = <<>>
            THEN ParseHeaderLines(target, Tail(lines))
            ELSE IF ~m.test
                 THEN [thrown |-> TRUE, line |-> line, target |-> target]
                 ELSE ParseHeaderLines(PutHeader(target, m.name, m.value), Tail(lines))

\* the headers object of a request made without custom headers
NoParse == [thrown |-> FALSE, line |-> <<>>, target |-> {}]

\* parseWgetHeadersInto(target, headersStr)
ParseWgetHeadersInto(target, headersStr) ==
    IF headersStr = <<>>
    THEN [thrown |-> FALSE, line |-> <<>>, target |-> target]
    ELSE ParseHeaderLines(target, SplitLines(headersStr))

\* parseWgetHeadersInto as used by _requestHtml: does the header block parse?
HeadersParse(headers) == ~ParseWgetHeadersInto({}, headers).thrown

---------------------------------------------------------------------------
(* Rate limiter (src/lib/scraper.js, validateRequestToHostFrequency) *)

\* a variant whose window is one millisecond longer
ValidateRequestToHostFrequencyStrict(map, host, t) ==
    LET nextAllowedTime == IF host \in DOMAIN map /\ map[host] # 0 THEN map[host] ELSE t - 1
        isAllowed == nextAllowedTime < t
        set == IF isAllowed
               THEN [h \in DOMAIN map \cup {host} |->
                        IF h = host THEN t + MAXIMUM_REQUEST_FREQUENCY_PER_HOST_IN_MILLIS
                        ELSE map[h]]
               ELSE map
        kept == {h \in DOMAIN set : ~(set[h] < t)}
    IN [isAllowed |-> isAllowed, map |-> [h \in kept |-> set[h]]]

\* a variant without the cleanup loop
ValidateRequestToHostFrequencyUncleaned(map, host, t) ==
    LET nextAllowedTime == IF host \in DOMAIN map /\ map[host] # 0 THEN map[host] ELSE t
        isAllowed == nextAllowedTime <= t
    IN [isAllowed |-> isAllowed,
        map |-> IF isAllowed
                THEN [h \in DOMAIN map \cup {host} |->
                        IF h = host THEN t + MAXIMUM_REQUEST_FREQUENCY_PER_HOST_IN_MILLIS
                        ELSE map[h]]
                ELSE map]

\* a variant that checks without reserving the window
ValidateRequestToHostFrequencyUnreserved(map, host, t) ==
    LET nextAllowedTime == IF host \in DOMAIN map /\ map[host] # 0 THEN map[host] ELSE t
        kept == {h \in DOMAIN map : ~(map[h] < t)}
    IN [isAllowed |-> nextAllowedTime <= t, map |-> [h \in kept |-> map[h]]]

\* The decision and the table afterwards, for a call at time t.
ValidateRequestToHostFrequency(map, host, t) ==
    LET nextAllowedTime == IF host \in DOMAIN map /\ map[host] # 0 THEN map[host] ELSE t
        isAllowed == nextAllowedTime <= t
        set == IF isAllowed
               THEN [h \in DOMAIN map \cup {host} |->
                        IF h = host THEN t + MAXIMUM_REQUEST_FREQUENCY_PER_HOST_IN_MILLIS
                        ELSE map[h]]
               ELSE map
        kept == {h \in DOMAIN set : ~(set[h] < t)}
    IN [isAllowed |-> isAllowed, map |-> [h \in kept |-> set[h]]]

---------------------------------------------------------------------------
(* Promise of one loadPageAsHtml call: the first settlement wins *)

NoPromise == [state |-> "none", html |-> <<>>, error |-> ""]
PendingPromise == [state |-> "pending", html |-> <<>>, error |-> ""]

Reject(p, err) ==
    IF p.state = "pending" THEN [state |-> "rejected", html |-> <<>>, error |-> err] ELSE p

Resolve(p, html) ==
    IF p.state = "pending" THEN [state |-> "fulfilled", html |-> html, error |-> ""] ELSE p

---------------------------------------------------------------------------
(* Stream scanner: the closure state of one response and _processChunk *)

\* a variant that destroys the request without remembering it
DestroyRequestUnflagged(e) == [e EXCEPT !.destroyCalls = @ + 1]

\* _destroyRequest
DestroyRequest(e) ==
    IF ~e.isRequestDestroyed
    THEN [e EXCEPT !.isRequestDestroyed = TRUE, !.destroyCalls = @ + 1]
    ELSE e

\* const chunkBufferSize = Math.max(opts.chunkBufferSize, startTokenLength, stopTokenLength)
ChunkBufferSize(o) == Max(o.chunkBufferSize, Max(Len(o.startToken), Len(o.stopToken)))

\* const maxHtmlSize = opts.maxBytes || DEFAULT_MAX_SIZE
MaxHtmlSize(o) == IF o.maxBytes = 0 THEN DEFAULT_MAX_SIZE ELSE o.maxBytes

\* The floor kept for the next stop-token search when none was found
NextStopFloor(o, e) == Len(e.retHtml) - Len(o.stopToken)

\* _processChunk (token mode), from "if (stopToken)" on: the stop-token search
\* and the byte budget, on retHtml with the buffered data already appended
StopAndBudget(o, e) ==
    LET stopTokenIndex == IndexOf(e.retHtml, o.stopToken, e.minStopTokenIndexInAllHtml)
        endOffset == IF o.isStopTokenIncluded THEN Len(o.stopToken) ELSE 0
        e1 == IF o.stopToken # <<>>
              THEN [e EXCEPT !.minStopTokenIndexInAllHtml = NextStopFloor(o, e)]
              ELSE e
    IN IF o.stopToken # <<>> /\ stopTokenIndex >= 0
       THEN DestroyRequest([e EXCEPT !.retHtml =
                Substring(@, 0, Min(stopTokenIndex + endOffset, MaxHtmlSize(o)))])
       ELSE IF Len(e1.retHtml) < MaxHtmlSize(o)
            THEN e1
            ELSE DestroyRequest([e1 EXCEPT !.retHtml = Substring(@, 0, MaxHtmlSize(o))])

\* What is kept of the buffer when the start token was not found in it
KeepAfterFailedStartSearch(o, buffered) == Substr(buffered, 1 - Len(o.startToken))

\* _processChunk when a start or a stop token is configured
ProcessChunkTokens(o, e, chunkData, forceProcessing) ==
    IF e.isRequestDestroyed /\ e.bufferedData = <<>>
    THEN e
    ELSE LET buffered == e.bufferedData \o chunkData
             startTokenIndex == IndexOf(buffered, o.startToken, 0)
         IN IF Len(buffered) < ChunkBufferSize(o) /\ ~forceProcessing
            THEN [e EXCEPT !.bufferedData = buffered]
            ELSE IF ~e.isStartTokenFound
                 THEN IF startTokenIndex >= 0
                      THEN StopAndBudget(o,
                             [e EXCEPT !.bufferedData = <<>>,
                                       !.retHtml = (IF o.isStartTokenIncluded
                                                    THEN o.startToken ELSE @)
                                                   \o SubstringFrom(buffered,
                                                        startTokenIndex + Len(o.startToken)),
                                       !.minStopTokenIndexInAllHtml =
                                            IF o.isStartTokenIncluded
                                            THEN Len(o.startToken) ELSE @,
                                       !.isStartTokenFound = TRUE])
                      ELSE [e EXCEPT !.bufferedData = KeepAfterFailedStartSearch(o, buffered)]
                 ELSE StopAndBudget(o, [e EXCEPT !.retHtml = @ \o buffered,
                                                 !.bufferedData = <<>>])

\* a variant that does not look at the destroyed flag
ProcessChunkPlainUnguarded(o, e, chunkData) ==
    LET remainingChars == e.remainingChars - Len(chunkData)
    IN IF remainingChars <= 0
       THEN DestroyRequest([e EXCEPT !.remainingChars = remainingChars,
                                     !.retHtml = Substring(chunkData, 0, -remainingChars)])
       ELSE [e EXCEPT !.remainingChars = remainingChars,
                      !.retHtml = @ \o chunkData]

\* _processChunk when neither token is configured
ProcessChunkPlain(o, e, chunkData) ==
    IF e.isRequestDestroyed
    THEN e
    ELSE LET remainingChars == e.remainingChars - Len(chunkData)
         IN IF remainingChars <= 0
            THEN DestroyRequest([e EXCEPT !.remainingChars = remainingChars,
                                          !.retHtml = Substring(chunkData, 0, -remainingChars)])
            ELSE [e EXCEPT !.remainingChars = remainingChars,
                           !.retHtml = @ \o chunkData]

\* if (startToken || stopToken) { ... } else { ... }
TokenMode(o) == o.startToken # <<>> \/ o.stopToken # <<>>

ProcessChunk(o, e, chunkData, forceProcessing) ==
    IF TokenMode(o)
    THEN ProcessChunkTokens(o, e, chunkData, forceProcessing)
    ELSE ProcessChunkPlain(o, e, chunkData)

\* a variant without the forced final flush
DoResolveWithoutFlush(o, e) ==
    IF e.resolveDefined
    THEN [e EXCEPT !.handlers = FALSE,
                   !.resolveDefined = FALSE,
                   !.scheduled = TRUE,
                   !.scheduledHtml = e.retHtml]
    ELSE e

\* a variant that does not test whether resolve is still defined
DoResolveUnguarded(o, e) ==
    LET flushed == IF e.bufferedData # <<>> THEN ProcessChunk(o, e, <<>>, TRUE) ELSE e
    IN [flushed EXCEPT !.handlers = FALSE,
                       !.resolveDefined = FALSE,
                       !.scheduled = TRUE,
                       !.scheduledHtml = flushed.retHtml]

\* _doResolve: the forced final flush, the handlers removed, the result
\* handed to setImmediate
DoResolve(o, e) ==
    IF e.resolveDefined
    THEN LET flushed == IF e.bufferedData # <<>> THEN ProcessChunk(o, e, <<>>, TRUE) ELSE e
         IN [flushed EXCEPT !.handlers = FALSE,
                            !.resolveDefined = FALSE,
                            !.scheduled = TRUE,
                            !.scheduledHtml = flushed.retHtml]
    ELSE e

---------------------------------------------------------------------------
(* The exchange: one http(s).request and the closure state around it *)

NoExchange ==
    [pc |-> "idle", isRequestDestroyed |-> FALSE, destroyCalls |-> 0,
     aborted |-> FALSE, errored |-> FALSE, body |-> <<>>, pos |-> 0, ended |-> FALSE,
     handlers |-> FALSE, resolveDefined |-> FALSE,
     scheduled |-> FALSE, scheduledHtml |-> <<>>,
     isStartTokenFound |-> FALSE, minStopTokenIndexInAllHtml |-> 0,
     bufferedData |-> <<>>, retHtml |-> <<>>, remainingChars |-> 0]

\* after _request.end(): the request is out, no response yet
WaitingExchange == [NoExchange EXCEPT !.pc = "waiting", !.resolveDefined = TRUE]

\* the executor threw before a request was made
ClosedExchange == [NoExchange EXCEPT !.pc = "closed"]

\* a variant that takes the start token for found from the beginning
StreamingExchangeStartFound(o, body) ==
    [WaitingExchange EXCEPT !.pc = "streaming", !.body = body, !.handlers = TRUE,
                            !.isStartTokenFound = TRUE,
                            !.remainingChars = IF TokenMode(o) THEN 0 ELSE MaxHtmlSize(o)]

\* the response callback's closure state for a non-redirect response, before
\* any chunk: let isStartTokenFound = !startToken, ... ; res.on('data', ...)
StreamingExchange(o, body) ==
    [WaitingExchange EXCEPT !.pc = "streaming", !.body = body, !.handlers = TRUE,
                            !.isStartTokenFound = (o.startToken = <<>>),
                            !.remainingChars = IF TokenMode(o) THEN 0 ELSE MaxHtmlSize(o)]

\* _requestHtml's executor up to _request.end(): the rate gate (which does not
\* return after reject), the header parse (which may throw), the request
RequestHtml(o, map, p, t) ==
    LET gated == ~IsRedirect(o) /\ o.restrictRequestFrequency
        v == ValidateRequestToHostFrequency(map, o.url.hostname, t)
        denied == gated /\ ~v.isAllowed
        p1 == IF denied THEN Reject(p, "Too frequent requests") ELSE p
        parsed == IF o.headers # NoHeaders
                  THEN ParseWgetHeadersInto({}, o.headers)
                  ELSE NoParse
        threw == parsed.thrown
    IN [map |-> IF gated THEN v.map ELSE map,
        promise |-> IF threw THEN Reject(p1, "Invalid header line") ELSE p1,
        exchange |-> IF threw THEN ClosedExchange ELSE WaitingExchange,
        issued |-> ~threw,
        parsed |-> parsed,
        gated |-> gated,
        denied |-> denied]

NoHist ==
    [calls |-> 0, exchanges |-> 0, responses |-> 0, gateCalls |-> 0,
     denied |-> FALSE, hops |-> 0, startRedirects |-> 0, limitErr |-> FALSE,
     hopGateCalls |-> 0, hopTableChanged |-> FALSE, page |-> "none",
     chunkLens |-> <<>>, parsed |-> NoParse, updateErr |-> ""]

NoGate ==
    [n |-> 0, cfg |-> "c1", host |-> "h1", time |-> 0, isAllowed |-> FALSE, prevPermit |-> -1,
     permitAt |-> [h \in Hosts |-> -1]]

\* ghost: the decision just taken by the limiter for configuration c
GateRecord(c, o, r, t) ==
    IF r.gated
    THEN [n |-> lastGate.n + 1, cfg |-> c, host |-> o.url.hostname, time |-> t,
          isAllowed |-> ~r.denied,
          prevPermit |-> lastGate.permitAt[o.url.hostname],
          permitAt |-> IF r.denied THEN lastGate.permitAt
                       ELSE [lastGate.permitAt EXCEPT ![o.url.hostname] = t]]
    ELSE lastGate

\* a variant of loadPageAsHtml that gives the configuration a new hop counter
StartFetchResetting(c, maxCalls, d) ==
    /\ ex[c].pc \in {"idle", "closed"}
    /\ ~ex[c].scheduled
    /\ hist[c].calls < maxCalls
    /\ LET o == [opts[c] EXCEPT !.totalRedirects = 0]
           r == RequestHtml(o, nextAllowedRequestTimeByHostname, PendingPromise, now + d)
       IN /\ d # 0 => r.gated
          /\ now' = now + d
          /\ nextAllowedRequestTimeByHostname' = r.map
          /\ promise' = [promise EXCEPT ![c] = r.promise]
          /\ ex' = [ex EXCEPT ![c] = r.exchange]
          /\ hist' = [hist EXCEPT ![c] =
                [NoHist EXCEPT !.calls = hist[c].calls + 1,
                               !.exchanges = IF r.issued THEN 1 ELSE 0,
                               !.gateCalls = IF r.gated THEN 1 ELSE 0,
                               !.denied = r.denied,
                               !.startRedirects = 0,
                               !.parsed = r.parsed]]
          /\ lastGate' = GateRecord(c, o, r, now + d)
          /\ opts' = [opts EXCEPT ![c] = o]

\* loadPageAsHtml(opts): a new promise, then _requestHtml(opts); when the
\* limiter is consulted it reads the clock, d milliseconds after the latest
\* reading
StartFetch(c, maxCalls, d) ==
    /\ ex[c].pc \in {"idle", "closed"}
    /\ ~ex[c].scheduled
    /\ hist[c].calls < maxCalls
    /\ LET r == RequestHtml(opts[c], nextAllowedRequestTimeByHostname, PendingPromise, now + d)
       IN /\ d # 0 => r.gated
          /\ now' = now + d
          /\ nextAllowedRequestTimeByHostname' = r.map
          /\ promise' = [promise EXCEPT ![c] = r.promise]
          /\ ex' = [ex EXCEPT ![c] = r.exchange]
          /\ hist' = [hist EXCEPT ![c] =
                [NoHist EXCEPT !.calls = hist[c].calls + 1,
                               !.exchanges = IF r.issued THEN 1 ELSE 0,
                               !.gateCalls = IF r.gated THEN 1 ELSE 0,
                               !.denied = r.denied,
                               !.startRedirects = opts[c].totalRedirects,
                               !.parsed = r.parsed]]
          /\ lastGate' = GateRecord(c, opts[c], r, now + d)
    /\ UNCHANGED opts

\* the response callback, redirect branch: res.destroy(), updateForRedirect,
\* then either reject or resolve(_requestHtml(opts))
OnRedirect(c, loc) ==
    LET u == UpdateForRedirect(opts[c], loc)
        r == RequestHtml(u.opts, nextAllowedRequestTimeByHostname, promise[c], now)
        h == [hist[c] EXCEPT !.responses = @ + 1, !.hops = @ + 1]
    IN IF u.error # ""
       THEN /\ promise' = [promise EXCEPT ![c] = Reject(@, u.error)]
            /\ ex' = [ex EXCEPT ![c] = ClosedExchange]
            /\ hist' = [hist EXCEPT ![c] =
                    [h EXCEPT !.limitErr = (u.error = "Redirect limit exceeded"),
                              !.updateErr = u.error]]
            /\ opts' = [opts EXCEPT ![c] = u.opts]
            /\ UNCHANGED <<nextAllowedRequestTimeByHostname, lastGate>>
       ELSE /\ opts' = [opts EXCEPT ![c] = u.opts]
            /\ nextAllowedRequestTimeByHostname' = r.map
            /\ promise' = [promise EXCEPT ![c] = r.promise]
            /\ ex' = [ex EXCEPT ![c] = r.exchange]
            /\ hist' = [hist EXCEPT ![c] =
                    [h EXCEPT !.parsed = r.parsed,
                              !.exchanges = @ + (IF r.issued THEN 1 ELSE 0),
                              !.gateCalls = @ + (IF r.gated THEN 1 ELSE 0),
                              !.hopGateCalls = @ + (IF r.gated THEN 1 ELSE 0),
                              !.hopTableChanged =
                                   (@ \/ r.map # nextAllowedRequestTimeByHostname)]]
            /\ lastGate' = GateRecord(c, u.opts, r, now)

\* a variant that rejects a non-HTML response without destroying the request
OnPageWithoutTeardown(c, html, body) ==
    /\ ex' = [ex EXCEPT ![c] = StreamingExchange(opts[c], body)]
    /\ promise' = [promise EXCEPT ![c] =
                     IF html THEN @ ELSE Reject(@, "Unsupported content type")]
    /\ hist' = [hist EXCEPT ![c].responses = @ + 1,
                            ![c].page = IF html THEN "html" ELSE "other"]
    /\ UNCHANGED <<opts, nextAllowedRequestTimeByHostname, lastGate>>

\* the response callback, no location header: the content-type check (which
\* does not return after reject) and the wiring of the scanner
OnPage(c, html, body) ==
    LET e == StreamingExchange(opts[c], body)
    IN /\ ex' = [ex EXCEPT ![c] = IF html THEN e ELSE DestroyRequest(e)]
       /\ promise' = [promise EXCEPT ![c] =
                        IF html THEN @ ELSE Reject(@, "Unsupported content type")]
       /\ hist' = [hist EXCEPT ![c].responses = @ + 1,
                               ![c].page = IF html THEN "html" ELSE "other"]
       /\ UNCHANGED <<opts, nextAllowedRequestTimeByHostname, lastGate>>

\* the callback of httpOrHttps.request, for the response resp
OnResponse(c, resp) ==
    /\ ex[c].pc = "waiting"
    /\ ~ex[c].aborted
    /\ IF resp.redirect THEN OnRedirect(c, resp.loc) ELSE OnPage(c, resp.html, resp.body)
    /\ UNCHANGED <<now>>

\* res 'data': the next k characters of the body arrive as one chunk
OnData(c, k) ==
    /\ ex[c].pc = "streaming"
    /\ ex[c].handlers
    /\ ~ex[c].ended
    /\ ~ex[c].aborted
    /\ ex[c].pos + k <= Len(ex[c].body)
    /\ ex' = [ex EXCEPT ![c] =
                [ProcessChunk(opts[c], ex[c],
                              SubSeq(ex[c].body, ex[c].pos + 1, ex[c].pos + k), FALSE)
                    EXCEPT !.pos = @ + k]]
    /\ hist' = [hist EXCEPT ![c].chunkLens =
                    IF ex[c].isRequestDestroyed THEN @ ELSE Append(@, k)]
    /\ UNCHANGED <<opts, nextAllowedRequestTimeByHostname, now, promise, lastGate>>

\* res 'end': the whole body was delivered
OnEnd(c) ==
    /\ ex[c].pc = "streaming"
    /\ ex[c].pos = Len(ex[c].body)
    /\ ~ex[c].ended
    /\ ~ex[c].isRequestDestroyed
    /\ ~ex[c].aborted
    /\ ex' = [ex EXCEPT ![c] = [DoResolve(opts[c], ex[c]) EXCEPT !.ended = TRUE]]
    /\ UNCHANGED <<opts, nextAllowedRequestTimeByHostname, now, promise, hist, lastGate>>

\* res 'close': after the end of the body, or after the request was destroyed
\* or aborted
OnClose(c) ==
    /\ ex[c].pc = "streaming"
    /\ TRUE \in {ex[c].ended, ex[c].isRequestDestroyed, ex[c].aborted, ex[c].errored}
    /\ ex' = [ex EXCEPT ![c] =
                [(IF ex[c].handlers THEN DoResolve(opts[c], ex[c]) ELSE ex[c])
                    EXCEPT !.pc = "closed"]]
    /\ UNCHANGED <<opts, nextAllowedRequestTimeByHostname, now, promise, hist, lastGate>>

\* setImmediate(resolve, retHtml) fires
ResolveImmediate(c) ==
    /\ ex[c].scheduled
    /\ promise' = [promise EXCEPT ![c] = Resolve(@, ex[c].scheduledHtml)]
    /\ ex' = [ex EXCEPT ![c].scheduled = FALSE]
    /\ UNCHANGED <<opts, nextAllowedRequestTimeByHostname, now, hist, lastGate>>

\* _request 'error': resolve = undefined; reject(...)
OnError(c) ==
    /\ ex[c].pc \in {"waiting", "streaming"}
    /\ ~ex[c].errored
    /\ ex' = [ex EXCEPT ![c].errored = TRUE,
                        ![c].resolveDefined = FALSE,
                        ![c].pc = IF @ = "waiting" THEN "closed" ELSE @]
    /\ promise' = [promise EXCEPT ![c] = Reject(@, "scraper request failed")]
    /\ UNCHANGED <<opts, nextAllowedRequestTimeByHostname, now, hist, lastGate>>

\* _request 'timeout': _request.abort()
OnTimeout(c) ==
    /\ ex[c].pc \in {"waiting", "streaming"}
    /\ ~ex[c].aborted
    /\ ~ex[c].isRequestDestroyed
    /\ ex' = [ex EXCEPT ![c].aborted = TRUE]
    /\ UNCHANGED <<opts, nextAllowedRequestTimeByHostname, now, promise, hist, lastGate>>

---------------------------------------------------------------------------
(* Configurations, responses and the specifications *)

DefaultUrl(h) == [protocol |-> "http:", hostname |-> h]

\* new ScraperOpts(url): the field defaults of the class
DefaultOpts(h) ==
    [url |-> DefaultUrl(h), startToken |-> <<>>, isStartTokenIncluded |-> TRUE,
     stopToken |-> <<>>, isStopTokenIncluded |-> FALSE, maxBytes |-> 0,
     chunkBufferSize |-> DEFAULT_CHUNK_BUFFER_SIZE, restrictRequestFrequency |-> TRUE,
     maxRedirects |-> 0, maxRedirectsHalf |-> FALSE, totalRedirects |-> 0,
     headers |-> NoHeaders]

Bodies(n) == UNION {[1..k -> Chars] : k \in 0..n}

StartTokens == {<<>>, <<"a">>, <<"a", "b">>}
StopTokens == {<<>>, <<"a">>, <<"b", "a">>}

NoLoc == [rooted |-> TRUE, protocol |-> "", hostname |-> "", media |-> FALSE]

PageResponses(bodies) ==
    {[redirect |-> FALSE, loc |-> NoLoc, html |-> TRUE, body |-> b] : b \in bodies}

\* Scanner specification: one configuration built with withStartToken,
\* withStopToken, withMaxBytes, withChunkBufferSize and
\* withRequestFrequencyRestriction(false); one fetch answered by an HTML page
\* whose body arrives in chunks of any sizes.
\* a token with its inclusion flag; the flag of an unset token is the default
TokenChoices(tokens, default) ==
    {tc \in tokens \X BOOLEAN : tc[1] # <<>> \/ tc[2] = default}

ScanOpts ==
    {[DefaultOpts("h1") EXCEPT !.startToken = st[1], !.isStartTokenIncluded = st[2],
                               !.stopToken = sp[1], !.isStopTokenIncluded = sp[2],
                               !.maxBytes = mb, !.chunkBufferSize = cb,
                               !.restrictRequestFrequency = FALSE] :
        st \in TokenChoices(StartTokens, TRUE), sp \in TokenChoices(StopTokens, FALSE),
        mb \in 0..MaxBytesBound, cb \in {0, MaxChunkBuffer}}

InitCommon ==
    /\ nextAllowedRequestTimeByHostname = <<>>
    /\ now = 0
    /\ promise = [c \in Cfgs |-> NoPromise]
    /\ ex = [c \in Cfgs |-> NoExchange]
    /\ hist = [c \in Cfgs |-> NoHist]
    /\ lastGate = NoGate

InitScan ==
    /\ opts \in [Cfgs -> ScanOpts \cup {DefaultOpts("h1")}]
    /\ opts["c1"] \in ScanOpts
    /\ opts["c2"] = DefaultOpts("h1")
    /\ InitCommon

NextScan ==
    \/ StartFetch("c1", 1, 0)
    \/ \E resp \in PageResponses(Bodies(MaxBodyLen)) : OnResponse("c1", resp)
    \/ \E k \in 1..MaxBodyLen : OnData("c1", k)
    \/ OnEnd("c1")
    \/ OnClose("c1")
    \/ ResolveImmediate("c1")

SpecScan == InitScan /\ [][NextScan]_vars

\* Teardown specification: the scanner specification with a server that may
\* also answer with a content type other than HTML.
AnyTypeResponses(bodies) ==
    {[redirect |-> FALSE, loc |-> NoLoc, html |-> h, body |-> b] :
        h \in BOOLEAN, b \in bodies}

NextTeardown ==
    \/ StartFetch("c1", 1, 0)
    \/ \E resp \in AnyTypeResponses(Bodies(MaxBodyLen)) : OnResponse("c1", resp)
    \/ \E k \in 1..MaxBodyLen : OnData("c1", k)
    \/ OnEnd("c1")
    \/ OnClose("c1")
    \/ ResolveImmediate("c1")

SpecTeardown == InitScan /\ [][NextTeardown]_vars

\* Failure specification: the scanner specification with a transport that may
\* fail and a timeout that may fire at any point of the exchange.
NextFailure ==
    \/ StartFetch("c1", 1, 0)
    \/ \E resp \in PageResponses(Bodies(MaxBodyLen)) : OnResponse("c1", resp)
    \/ \E k \in 1..MaxBodyLen : OnData("c1", k)
    \/ OnEnd("c1")
    \/ OnClose("c1")
    \/ ResolveImmediate("c1")
    \/ OnError("c1")
    \/ OnTimeout("c1")

SpecFailure == InitScan /\ [][NextFailure]_vars

\* Delivery specification: the failure specification for the configurations
\* built with withChunkBufferSize(0) (the buffer is then as long as the longer
\* token) and with no byte budget, the smallest or the largest one.
DeliveryOpts ==
    {o \in ScanOpts : o.chunkBufferSize = 0 /\ o.maxBytes \in {0, 1, MaxBytesBound}}

InitDelivery ==
    /\ opts \in {[c \in Cfgs |-> IF c = "c1" THEN o ELSE DefaultOpts("h1")] : o \in DeliveryOpts}
    /\ InitCommon

SpecDelivery == InitDelivery /\ [][NextFailure]_vars

\* Orchestration specification: two configurations, each used for up to
\* MaxCalls fetches, one fetch after the other; the server of the first
\* answers with redirects, HTML pages or other content, the server of the
\* second (which contends for the limiter) with an HTML page; time passes
\* between the fetches.
Locations ==
    {[rooted |-> FALSE, protocol |-> "http:", hostname |-> "h1", media |-> FALSE],
     [rooted |-> FALSE, protocol |-> "http:", hostname |-> "h2", media |-> FALSE],
     [rooted |-> TRUE, protocol |-> "", hostname |-> "", media |-> FALSE],
     [rooted |-> FALSE, protocol |-> "http:", hostname |-> "h1", media |-> TRUE]}

OrchBody == <<"a", "b">>

OrchResponses ==
    {[redirect |-> TRUE, loc |-> l, html |-> FALSE, body |-> <<>>] : l \in Locations}
    \cup {[redirect |-> FALSE, loc |-> NoLoc, html |-> h, body |-> OrchBody] : h \in BOOLEAN}

\* time elapsed between two readings of the clock
Elapsed ==
    {0, MAXIMUM_REQUEST_FREQUENCY_PER_HOST_IN_MILLIS - 1,
     MAXIMUM_REQUEST_FREQUENCY_PER_HOST_IN_MILLIS}

\* a header block whose only line has no colon
MalformedBlock == <<"a">>

\* built with withRequestFrequencyRestriction, withMaxRedirects (or the
\* default 0) and withHeaders
OrchOpts(hosts, restricts, maxima, headers) ==
    {WithHeaders([DefaultOpts(h) EXCEPT !.restrictRequestFrequency = r, !.maxRedirects = m],
                 hd) :
        h \in hosts, r \in restricts, m \in maxima, hd \in headers}

Init ==
    /\ opts \in [Cfgs -> OrchOpts(Hosts, BOOLEAN, 0..MaxRedirectsBound, {NoHeaders, MalformedBlock})]
    /\ opts["c1"] \in OrchOpts({"h1"}, BOOLEAN, 0..MaxRedirectsBound, {NoHeaders, MalformedBlock})
    /\ opts["c2"] \in OrchOpts(Hosts, {TRUE}, {0}, {NoHeaders})
    /\ InitCommon

\* no fetch of configuration c is running
AtRest(c) == ex[c].pc \in {"idle", "closed"} /\ ~ex[c].scheduled

Next ==
    \/ \E c \in Cfgs, d \in Elapsed :
            (\A o \in Cfgs : AtRest(o)) /\ StartFetch(c, MaxCalls, d)
    \/ \E resp \in OrchResponses : OnResponse("c1", resp)
    \/ \E resp \in PageResponses({OrchBody}) : OnResponse("c2", resp)
    \/ \E c \in Cfgs : OnData(c, Len(OrchBody))
    \/ \E c \in Cfgs : OnEnd(c)
    \/ \E c \in Cfgs : OnClose(c)
    \/ \E c \in Cfgs : ResolveImmediate(c)

Spec == Init /\ [][Next]_vars

\* Concurrency specification: two configurations fetched concurrently, each
\* up to MaxCalls times; a fetch may start while the other one is waiting for
\* its response or streaming; the server answers with an HTML page.
InitConcurrent ==
    /\ opts \in [Cfgs -> OrchOpts(Hosts, BOOLEAN, {0}, {NoHeaders})]
    /\ opts["c1"] \in OrchOpts({"h1"}, {TRUE}, {0}, {NoHeaders})
    /\ InitCommon

NextConcurrent ==
    \/ \E c \in Cfgs, d \in Elapsed : StartFetch(c, MaxCalls, d)
    \/ \E c \in Cfgs, resp \in PageResponses({OrchBody}) : OnResponse(c, resp)
    \/ \E c \in Cfgs : OnData(c, Len(OrchBody))
    \/ \E c \in Cfgs : OnEnd(c)
    \/ \E c \in Cfgs : OnClose(c)
    \/ \E c \in Cfgs : ResolveImmediate(c)

SpecConcurrent == InitConcurrent /\ [][NextConcurrent]_vars

\* Budget specification: one configuration built with withMaxRedirects (or
\* left at the default 0) and withRequestFrequencyRestriction, fetched once;
\* the server answers with redirects, HTML pages or other content.
BudgetInputs == (0..(MaxRedirectsBound + 3)) \X BOOLEAN

BudgetOpts ==
    {DefaultOpts("h1")}
    \cup {WithMaxRedirects([DefaultOpts("h1") EXCEPT !.restrictRequestFrequency = r],
                           b[1], b[2]).opts :
            r \in BOOLEAN,
            b \in {i \in BudgetInputs : WithMaxRedirects(DefaultOpts("h1"), i[1], i[2]).error = ""}}

InitBudget ==
    /\ opts \in [Cfgs -> BudgetOpts]
    /\ opts["c2"] = DefaultOpts("h1")
    /\ InitCommon

NextBudget ==
    \/ StartFetch("c1", 1, 0)
    \/ \E resp \in OrchResponses : OnResponse("c1", resp)
    \/ OnData("c1", Len(OrchBody))
    \/ OnEnd("c1")
    \/ OnClose("c1")
    \/ ResolveImmediate("c1")

SpecBudget == InitBudget /\ [][NextBudget]_vars

\* Header specification: one fetch of a plain page by a configuration built
\* with withHeaders, for every header block of up to MaxHeaderLen characters.
HeaderBlocks == UNION {[1..k -> HeaderChars] : k \in 0..MaxHeaderLen}

InitHeaders ==
    /\ opts \in {[c \in Cfgs |-> IF c = "c1"
                                 THEN WithHeaders(DefaultOpts("h1"), b)
                                 ELSE DefaultOpts("h1")] : b \in HeaderBlocks}
    /\ InitCommon

NextHeaders ==
    \/ StartFetch("c1", 1, 0)
    \/ \E resp \in PageResponses({<<"a">>}) : OnResponse("c1", resp)
    \/ OnData("c1", 1)
    \/ OnEnd("c1")
    \/ OnClose("c1")
    \/ ResolveImmediate("c1")

SpecHeaders == InitHeaders /\ [][NextHeaders]_vars

---------------------------------------------------------------------------
(* What the specification promises of the scanner, stated on the body *)

\* the byte budget of a configuration: maxBytes, or the default when it is 0
ByteBudget(o) == IF o.maxBytes = 0 THEN DEFAULT_MAX_SIZE ELSE o.maxBytes

\* first occurrence of the start token, and first occurrence of the stop token
\* after the end of that start token
StartAt(o, body) == IndexOf(body, o.startToken, 0)
StopAt(o, body) == IndexOf(body, o.stopToken, StartAt(o, body) + Len(o.startToken))

BothTokensIn(o, body) ==
    /\ o.startToken # <<>>
    /\ o.stopToken # <<>>
    /\ StartAt(o, body) >= 0
    /\ StopAt(o, body) >= 0

\* the untruncated match: start token if included, content, stop token if included
Match(o, body) ==
    Substring(body,
              StartAt(o, body) + (IF o.isStartTokenIncluded THEN 0 ELSE Len(o.startToken)),
              StopAt(o, body) + (IF o.isStopTokenIncluded THEN Len(o.stopToken) ELSE 0))

\* the fetch of configuration c delivered its result and nothing cut the
\* transfer short
Delivered(c) ==
    /\ promise[c].state = "fulfilled"
    /\ ~ex[c].aborted
    /\ ~ex[c].errored

\* the scanner run on the whole body as one chunk, then the end of the stream
WholeBodyOutput(o, body) ==
    LET e0 == StreamingExchange(o, body)
        e1 == IF body = <<>> THEN e0 ELSE ProcessChunk(o, e0, body, FALSE)
    IN DoResolve(o, e1).retHtml

\* C1: the scanner's string is never longer than the byte budget, with or
\* without tokens, whatever the body and its chunks.
C1_OutputWithinBudget ==
    \A c \in Cfgs :
        /\ Len(ex[c].retHtml) <= ByteBudget(opts[c])
        /\ Len(promise[c].html) <= ByteBudget(opts[c])

\* C2: with both tokens in the body and the budget out of reach, the result is
\* the region from the first start token to the first stop token after it.
C2_FragmentIsFirstMatch ==
    \A c \in Cfgs :
        (/\ Delivered(c)
         /\ BothTokensIn(opts[c], ex[c].body)
         /\ Len(ex[c].body) < ByteBudget(opts[c]))
        => promise[c].html = Match(opts[c], ex[c].body)

\* C3: whatever the chunks the body arrived in, the result is the one the
\* whole body in a single chunk gives.
C3_ChunkingIndependent ==
    \A c \in Cfgs :
        Delivered(c) => promise[c].html = WholeBodyOutput(opts[c], ex[c].body)

\* the scanner fed the chunks of the given lengths, one 'data' event each
RECURSIVE ScanChunks(_, _, _)
ScanChunks(o, e, lens) ==
    IF lens = <<>>
    THEN e
    ELSE ScanChunks(o,
                    [ProcessChunk(o, e, SubSeq(e.body, e.pos + 1, e.pos + Head(lens)), FALSE)
                        EXCEPT !.pos = @ + Head(lens)],
                    Tail(lens))

\* the result for a body that arrives in chunks of the given lengths
ChunkedOutput(o, body, lens) ==
    DoResolve(o, ScanChunks(o, StreamingExchange(o, body), lens)).retHtml

RECURSIVE Sum(_)
Sum(lens) == IF lens = <<>> THEN 0 ELSE Head(lens) + Sum(Tail(lens))

\* the chunks configuration c received until its request was destroyed, and
\* the rest of its body as one more
Chunking(c) ==
    hist[c].chunkLens \o
        (IF Sum(hist[c].chunkLens) < Len(ex[c].body)
         THEN <<Len(ex[c].body) - Sum(hist[c].chunkLens)>> ELSE <<>>)

WithInclusion(o, startIncluded, stopIncluded) ==
    [o EXCEPT !.isStartTokenIncluded = startIncluded, !.isStopTokenIncluded = stopIncluded]

\* C4: for a body holding both tokens, the budget out of reach and the same
\* chunks, including the start token prepends it to the result and including
\* the stop token appends it.
C4_InclusionSymmetry ==
    \A c \in Cfgs :
        (/\ Delivered(c)
         /\ BothTokensIn(opts[c], ex[c].body)
         /\ Len(ex[c].body) < ByteBudget(opts[c]))
        => LET out(b, s) == ChunkedOutput(WithInclusion(opts[c], b, s), ex[c].body, Chunking(c))
           IN /\ promise[c].html =
                    out(opts[c].isStartTokenIncluded, opts[c].isStopTokenIncluded)
              /\ \A s \in BOOLEAN : out(TRUE, s) = opts[c].startToken \o out(FALSE, s)
              /\ \A b \in BOOLEAN : out(b, TRUE) = out(b, FALSE) \o opts[c].stopToken

\* C5: a match longer than maxBytes is delivered cut to exactly its first
\* maxBytes characters.
C5_TruncatedToBudget ==
    \A c \in Cfgs :
        (/\ Delivered(c)
         /\ BothTokensIn(opts[c], ex[c].body)
         /\ Len(Match(opts[c], ex[c].body)) > ByteBudget(opts[c]))
        => promise[c].html = Substring(Match(opts[c], ex[c].body), 0, ByteBudget(opts[c]))

\* C6: without tokens the result is the first min(body length, budget)
\* characters of the body, and the request is destroyed once the budget is
\* reached.
C6_PlainModeIsPrefix ==
    \A c \in Cfgs :
        (Delivered(c) /\ ~TokenMode(opts[c]))
        => /\ promise[c].html =
                Substring(ex[c].body, 0, Min(Len(ex[c].body), ByteBudget(opts[c])))
           /\ (Len(ex[c].body) >= ByteBudget(opts[c]) => ex[c].isRequestDestroyed)

---------------------------------------------------------------------------
(* What the specification promises of redirects and of the rate limiter *)

\* the fetch of configuration c started with an unused hop counter and was not
\* turned away by the limiter
FreshFetch(c) == hist[c].calls > 0 /\ hist[c].startRedirects = 0 /\ ~hist[c].denied

RedirectLimitError(c) ==
    promise[c].state = "rejected" /\ promise[c].error = "Redirect limit exceeded"

\* C7: a chain of N redirects and then an HTML page succeeds with the final
\* page's scanned fragment when maxRedirects >= N, and fails with the
\* redirect-limit error, without a result, as soon as a redirect beyond
\* maxRedirects arrives.
C7_RedirectChain ==
    \A c \in Cfgs :
        FreshFetch(c) =>
            /\ hist[c].limitErr <=> hist[c].hops > opts[c].maxRedirects
            /\ hist[c].limitErr => RedirectLimitError(c) /\ hist[c].page = "none"
            /\ hist[c].page = "html" =>
                    /\ hist[c].hops <= opts[c].maxRedirects
                    /\ promise[c].state \in {"pending", "fulfilled"}
                    /\ ex[c].pc = "closed" /\ ~ex[c].scheduled => promise[c].state = "fulfilled"
                    /\ promise[c].state = "fulfilled" => promise[c].html = ex[c].retHtml

\* a chain of exactly maxRedirects >= 1 redirects delivered the final page
C7_Witness ==
    \E c \in Cfgs :
        /\ FreshFetch(c)
        /\ opts[c].maxRedirects >= 1
        /\ hist[c].hops = opts[c].maxRedirects
        /\ promise[c].state = "fulfilled"
        /\ promise[c].html = OrchBody

FrequencyError(c) ==
    promise[c].state = "rejected" /\ promise[c].error = "Too frequent requests"

\* C8: a gated request to a host is permitted exactly when no gated request
\* to that host was permitted before or the last one permitted is at least
\* 3000 ms old, whatever happened with other hosts; a denied fetch fails with
\* the frequency error.
C8_RateLimitPerHost ==
    /\ lastGate.n > 0 =>
            (lastGate.isAllowed <=>
                \/ lastGate.prevPermit = -1
                \/ lastGate.time >=
                        lastGate.prevPermit + MAXIMUM_REQUEST_FREQUENCY_PER_HOST_IN_MILLIS)
    /\ \A c \in Cfgs : hist[c].denied => FrequencyError(c)

\* a request is permitted exactly 3000 ms after the last permitted one to the
\* same host, while a fetch denied in between has failed
C8_Witness ==
    /\ lastGate.isAllowed
    /\ lastGate.prevPermit >= 0
    /\ lastGate.time = lastGate.prevPermit + MAXIMUM_REQUEST_FREQUENCY_PER_HOST_IN_MILLIS
    /\ \E c \in Cfgs : hist[c].denied /\ FrequencyError(c) /\ opts[c].url.hostname = lastGate.host

\* C9: a fetch denied by the limiter issues no HTTP exchange: no request is
\* sent, no response consumed, no redirect followed.
C9_DeniedIssuesNoExchange ==
    \A c \in Cfgs :
        hist[c].denied =>
            hist[c].exchanges = 0 /\ hist[c].responses = 0 /\ hist[c].hops = 0

\* C10: within one fetch the limiter is consulted at most once, never by a
\* redirect hop, and no hop changes the limiter's table.
C10_HopsSkipLimiter ==
    \A c \in Cfgs :
        /\ hist[c].gateCalls <= 1
        /\ hist[c].hopGateCalls = 0
        /\ ~hist[c].hopTableChanged

\* a gated fetch followed a redirect to a host whose window is closed
C10_Witness ==
    \E c \in Cfgs :
        /\ hist[c].gateCalls = 1
        /\ ~hist[c].denied
        /\ hist[c].hops >= 1
        /\ hist[c].exchanges = hist[c].hops + 1
        /\ opts[c].restrictRequestFrequency
        /\ opts[c].url.hostname \in DOMAIN nextAllowedRequestTimeByHostname
        /\ nextAllowedRequestTimeByHostname[opts[c].url.hostname] > now

---------------------------------------------------------------------------
(* What the specification promises of the scanner's steps *)

\* the step is a 'data' event of configuration c that reached the scanner
DataStep(c) ==
    /\ ex[c].pc = "streaming"
    /\ ex'[c].pos > ex[c].pos

\* the step ran the start-token search of configuration c and it failed: a
\* chunk that filled the buffer, or the forced flush of _doResolve
FailedStartSearch(c) ==
    /\ opts[c].startToken # <<>>
    /\ ~ex[c].isStartTokenFound
    /\ ~ex'[c].isStartTokenFound
    /\ IF DataStep(c)
       THEN /\ ~(ex[c].isRequestDestroyed /\ ex[c].bufferedData = <<>>)
            /\ Len(ex[c].bufferedData) + (ex'[c].pos - ex[c].pos) >= ChunkBufferSize(opts[c])
       ELSE /\ ex[c].resolveDefined
            /\ ~ex'[c].resolveDefined
            /\ ex'[c].scheduled
            /\ ex[c].bufferedData # <<>>

\* C11: after every step whose start-token search failed, the pending buffer
\* holds at most (start token length - 1) characters.
C11_PendingBounded ==
    [][\A c \in Cfgs :
          FailedStartSearch(c) => Len(ex'[c].bufferedData) <= Len(opts[c].startToken) - 1]_vars

\* the body from the start token on: the start token if included, then
\* everything behind it (the whole body when no start token is configured)
AfterStart(o, body) ==
    IF o.startToken = <<>>
    THEN body
    ELSE (IF o.isStartTokenIncluded THEN o.startToken ELSE <<>>)
            \o SubstringFrom(body, StartAt(o, body) + Len(o.startToken))

\* the start token, if configured, is in the body, and the stop token, if
\* configured, occurs nowhere from there on
StopNeverAppears(o, body) ==
    /\ TokenMode(o)
    /\ o.startToken # <<>> => StartAt(o, body) >= 0
    /\ o.stopToken # <<>> =>
            IndexOf(body, o.stopToken, IF o.startToken = <<>> THEN 0 ELSE StartAt(o, body)) = -1

\* C12: when the stop token never appears, the result is the body from the
\* start token on, cut at the byte budget, without a stop token in it; what was
\* still buffered when the stream ended is part of it.
C12_UnterminatedFragment ==
    \A c \in Cfgs :
        (Delivered(c) /\ StopNeverAppears(opts[c], ex[c].body))
        => /\ promise[c].html =
                Substring(AfterStart(opts[c], ex[c].body), 0, ByteBudget(opts[c]))
           /\ opts[c].stopToken # <<>> => IndexOf(promise[c].html, opts[c].stopToken, 0) = -1

\* a body shorter than the effective buffer size, delivered from the forced
\* flush alone, with both tokens configured and the stop token absent
C12_Witness ==
    \E c \in Cfgs :
        /\ Delivered(c)
        /\ StopNeverAppears(opts[c], ex[c].body)
        /\ opts[c].startToken # <<>>
        /\ opts[c].stopToken # <<>>
        /\ Len(ex[c].body) < ChunkBufferSize(opts[c])
        /\ ex[c].ended
        /\ Len(promise[c].html) >= 2

---------------------------------------------------------------------------
(* What the specification promises of the teardown *)

\* a response of configuration c is being, or was, received
Responded(c) == ex[c].pc \in {"streaming", "closed"} /\ hist[c].page # "none"

\* the scanner of configuration c met a terminal condition: the byte budget
\* is used up, or the response is not HTML
TerminalSignal(c) ==
    \/ hist[c].page = "other"
    \/ hist[c].page = "html" /\ TokenMode(opts[c])
            /\ Len(ex[c].retHtml) >= MaxHtmlSize(opts[c])
    \/ hist[c].page = "html" /\ ~TokenMode(opts[c]) /\ ex[c].remainingChars <= 0

\* C13: within one exchange the request is destroyed at most once, it is
\* destroyed as soon as a terminal condition is met, and every later teardown
\* call does nothing.
C13_TeardownOnce ==
    \A c \in Cfgs :
        /\ ex[c].destroyCalls <= 1
        /\ ex[c].isRequestDestroyed <=> ex[c].destroyCalls = 1
        /\ (Responded(c) /\ TerminalSignal(c)) => ex[c].destroyCalls = 1

\* the request was destroyed by the scanner and chunks kept arriving until the
\* whole body was delivered
C13_Witness ==
    \E c \in Cfgs :
        /\ hist[c].page = "html"
        /\ TokenMode(opts[c])
        /\ ex[c].destroyCalls = 1
        /\ ex[c].pos = Len(ex[c].body)
        /\ Sum(hist[c].chunkLens) < ex[c].pos

\* the scanner's variables of configuration c
ScannerState(e) ==
    <<e.retHtml, e.bufferedData, e.minStopTokenIndexInAllHtml, e.isStartTokenFound,
      e.remainingChars, e.destroyCalls>>

\* C14: a chunk that arrives after the request was destroyed changes neither
\* the output, nor the pending buffer, nor the stop-search floor, with or
\* without tokens.
C14_ChunkAfterTeardownIsNoOp ==
    [][\A c \in Cfgs :
          (DataStep(c) /\ ex[c].isRequestDestroyed)
          => ScannerState(ex'[c]) = ScannerState(ex[c])]_vars

\* without tokens, the budget was reached and the rest of the body arrived
\* afterwards
C14_Witness ==
    \E c \in Cfgs :
        /\ hist[c].page = "html"
        /\ ~TokenMode(opts[c])
        /\ ex[c].isRequestDestroyed
        /\ ex[c].pos = Len(ex[c].body)
        /\ Sum(hist[c].chunkLens) < ex[c].pos

ContentTypeError(c) ==
    promise[c].state = "rejected" /\ promise[c].error = "Unsupported content type"

\* C15: a non-redirect response that is not HTML fails the fetch with the
\* unsupported-content-type error; the request is destroyed before any chunk,
\* no chunk changes the output and the fetch never yields a string.
C15_NonHtmlFails ==
    \A c \in Cfgs :
        (Responded(c) /\ hist[c].page = "other")
        => /\ ContentTypeError(c)
           /\ ex[c].isRequestDestroyed
           /\ hist[c].chunkLens = <<>>
           /\ ex[c].retHtml = <<>>
           /\ ex[c].bufferedData = <<>>
           /\ ex[c].scheduledHtml = <<>>

\* the whole body of a non-HTML response arrived, the stream closed and the
\* scheduled resolve ran, with a start token that the body holds
C15_Witness ==
    \E c \in Cfgs :
        /\ hist[c].page = "other"
        /\ ex[c].pc = "closed"
        /\ ~ex[c].scheduled
        /\ ~ex[c].resolveDefined
        /\ ex[c].pos = Len(ex[c].body)
        /\ opts[c].startToken # <<>>
        /\ StartAt(opts[c], ex[c].body) >= 0
        /\ ContentTypeError(c)

---------------------------------------------------------------------------
(* What the specification promises of failures *)

\* C16: once the timeout fired or the transport failed during an unsettled
\* fetch, the fetch never resolves with a string.
C16_NoPartialSuccess ==
    [][\A c \in Cfgs :
          (promise[c].state = "pending" /\ TRUE \in {ex[c].aborted, ex[c].errored})
          => promise'[c].state # "fulfilled"]_vars

\* the header block of configuration c holds a malformed line
MalformedHeaders(c) == opts[c].headers # NoHeaders /\ ~HeadersParse(opts[c].headers)

\* C17: a header block with a malformed line is refused when it is set, so no
\* fetch is started and no limiter window is reserved with such a
\* configuration.
C17_HeadersRejectedWhenSet ==
    \A c \in Cfgs :
        MalformedHeaders(c) =>
            /\ hist[c].calls = 0
            /\ hist[c].gateCalls = 0
            /\ ~(lastGate.n > 0 /\ lastGate.cfg = c /\ lastGate.isAllowed)

---------------------------------------------------------------------------
(* What the specification promises of the hop budget *)

\* redirectsSoFar <= maxRedirects, for the JS number maxRedirects (a counter
\* that is an integer is at most whole + 0.5 exactly when it is at most whole)
CounterWithinBudget(o) == o.totalRedirects <= o.maxRedirects

\* C18: the hop counter never exceeds maxRedirects, and a redirect that would
\* make it exceed maxRedirects fails the fetch with the redirect-limit error
\* and is not followed.
C18_HopBudget ==
    \A c \in Cfgs :
        /\ CounterWithinBudget(opts[c])
        /\ hist[c].exchanges <= 1 + opts[c].maxRedirects
        /\ (~hist[c].denied /\ hist[c].hops > opts[c].maxRedirects) => RedirectLimitError(c)

---------------------------------------------------------------------------
(* What the specification promises of the limiter under concurrency *)

\* the fetch of configuration c is under way
Running(c) == ex[c].pc \in {"waiting", "streaming"}

\* C19: whatever the interleaving of concurrent fetches, a gated request to a
\* host is never permitted less than 3000 ms after the last permitted one to
\* that host; of two gated requests at the same instant the second is denied;
\* every entry of the table is the window reserved by the last permitted
\* request to its host.
C19_AtomicCheckAndReserve ==
    /\ (lastGate.n > 0 /\ lastGate.isAllowed /\ lastGate.prevPermit # -1)
         => lastGate.time - lastGate.prevPermit >=
                MAXIMUM_REQUEST_FREQUENCY_PER_HOST_IN_MILLIS
    /\ (lastGate.n > 0 /\ lastGate.time = lastGate.prevPermit) => ~lastGate.isAllowed
    /\ \A h \in DOMAIN nextAllowedRequestTimeByHostname :
            nextAllowedRequestTimeByHostname[h] =
                lastGate.permitAt[h] + MAXIMUM_REQUEST_FREQUENCY_PER_HOST_IN_MILLIS

\* two fetches gated on the same host at the same instant are both under way:
\* the first was permitted, the second denied
C19_Witness ==
    \E c, d \in Cfgs :
        /\ c # d
        /\ opts[c].url.hostname = opts[d].url.hostname
        /\ Running(c)
        /\ Running(d)
        /\ hist[c].gateCalls = 1
        /\ ~hist[c].denied
        /\ hist[d].denied
        /\ lastGate.cfg = d
        /\ lastGate.time = lastGate.prevPermit

\* the step consulted the limiter
GateStep == lastGate'.n # lastGate.n

\* C20: right after a check at time now the table holds no entry earlier than
\* now and still holds every entry that was not earlier than now; no other
\* step changes the table.
C20_LazyEviction ==
    [][/\ GateStep =>
            /\ \A h \in DOMAIN nextAllowedRequestTimeByHostname' :
                    nextAllowedRequestTimeByHostname'[h] >= lastGate'.time
            /\ \A h \in DOMAIN nextAllowedRequestTimeByHostname :
                    nextAllowedRequestTimeByHostname[h] >= lastGate'.time
                    => /\ h \in DOMAIN nextAllowedRequestTimeByHostname'
                       /\ h # lastGate'.host =>
                            nextAllowedRequestTimeByHostname'[h] =
                                nextAllowedRequestTimeByHostname[h]
       /\ ~GateStep =>
            nextAllowedRequestTimeByHostname' = nextAllowedRequestTimeByHostname]_vars

\* a host that was granted a window has no entry any more, while another host
\* still has one
C20_Witness ==
    /\ \E h \in Hosts :
            lastGate.permitAt[h] >= 0 /\ h \notin DOMAIN nextAllowedRequestTimeByHostname
    /\ DOMAIN nextAllowedRequestTimeByHostname # {}

---------------------------------------------------------------------------
(* What the specification promises of header blocks *)

\* the lines of a header block that are not blank, trimmed, in order
NonBlankLines(block) ==
    SelectSeq([i \in 1..Len(SplitLines(block)) |-> Trim(SplitLines(block)[i])],
              LAMBDA l : l # <<>>)

\* the name and the value of a `Name: value` line, both trimmed
LineName(line) == Trim(Substring(line, 0, IndexOf(line, <<":">>, 0)))
LineValue(line) == Trim(SubstringFrom(line, IndexOf(line, <<":">>, 0) + 1))

\* an allowed name: a listed one, or a token of letters, digits and hyphens
\* that begins with a letter or digit and holds a hyphen before its end
AllowedName(n) ==
    IF n \in ListedNames
    THEN TRUE
    ELSE /\ \E i \in 2..(Len(n) - 1) : n[i] = "-"
         /\ IsAlnum(n[1])
         /\ \A i \in 1..Len(n) : IsAlnum(n[i]) \/ n[i] = "-"

\* a well-formed `Name: value` pair with an allowed name
WellFormedLine(line) ==
    /\ IndexOf(line, <<":">>, 0) >= 0
    /\ AllowedName(LineName(line))
    /\ LineValue(line) # <<>>

\* C21: parsing a header block succeeds exactly when every non-blank line is
\* a well-formed `Name: value` pair with an allowed name, and then the result
\* maps each trimmed name to its trimmed value; otherwise the parse fails with
\* an error naming the first malformed line, whatever precedes or follows it.
C21_HeaderBlockParsing ==
    \A c \in Cfgs :
        hist[c].calls > 0 =>
            LET lines == NonBlankLines(opts[c].headers)
                bad == {i \in 1..Len(lines) : ~WellFormedLine(lines[i])}
                p == hist[c].parsed
            IN /\ p.thrown <=> bad # {}
               /\ bad # {} => p.line = lines[CHOOSE i \in bad : \A j \in bad : i <= j]
               /\ bad = {} =>
                    /\ \A i \in 1..Len(lines) :
                            \E h \in p.target : h[1] = LineName(lines[i])
                    /\ \A h \in p.target :
                            \E i \in 1..Len(lines) :
                                h = <<LineName(lines[i]), LineValue(lines[i])>>

---------------------------------------------------------------------------
(* What the specification promises of the stop-search floor *)

\* configuration c includes its start token in the output and has a stop token
SeededScan(c) ==
    /\ opts[c].startToken # <<>>
    /\ opts[c].isStartTokenIncluded
    /\ opts[c].stopToken # <<>>

\* C22: when the start token is included in the output, once it was found the
\* stop-search floor is never below the start token's length and never
\* decreases, so the output is never cut below the seeded start token (short
\* of the byte budget).
C22_StopFloorAboveSeed ==
    [][\A c \in Cfgs :
          (SeededScan(c) /\ ex'[c].isStartTokenFound)
          => /\ ex'[c].minStopTokenIndexInAllHtml >= Len(opts[c].startToken)
             /\ ex[c].isStartTokenFound
                    => ex'[c].minStopTokenIndexInAllHtml >= ex[c].minStopTokenIndexInAllHtml
             /\ Len(ex'[c].retHtml) >= Min(Len(opts[c].startToken), MaxHtmlSize(opts[c]))]_vars

---------------------------------------------------------------------------
(* What the specification promises of the delivery *)

\* the step hands a result of configuration c to setImmediate
Handover(c) ==
    /\ ex'[c].scheduled
    /\ ~ex[c].scheduled \/ ex'[c].scheduledHtml # ex[c].scheduledHtml

\* the result of configuration c was handed over or has reached the caller
HandedOver(c) == ex[c].scheduled \/ promise[c].state = "fulfilled"

\* C23: for an HTML page, whatever 'data', 'end', 'close', timeout and error
\* events follow each other, the result is handed over at most once (only
\* while resolve is defined, which the handover ends for good), a settled
\* fetch is never settled again, and once handed over the output string does
\* not change.
C23_OneTerminalOutput ==
    [][\A c \in Cfgs :
          (Responded(c) /\ hist'[c].calls = hist[c].calls)
          => /\ Handover(c) => (ex[c].resolveDefined /\ ~ex'[c].resolveDefined)
             /\ ~ex[c].resolveDefined => ~ex'[c].resolveDefined
             /\ promise[c].state # "pending" => promise'[c] = promise[c]
             /\ HandedOver(c) => /\ ex'[c].retHtml = ex[c].retHtml
                                 /\ ex'[c].scheduledHtml = ex[c].scheduledHtml]_vars

\* both 'end' and 'close' fired and the transport failed after the result had
\* reached the caller
C23_Witness ==
    /\ promise["c1"].state = "fulfilled"
    /\ promise["c1"].html # <<>>
    /\ ex["c1"].ended
    /\ ex["c1"].pc = "closed"
    /\ ex["c1"].errored

---------------------------------------------------------------------------
(* What the specification promises of a configuration used again *)

\* the step starts a fetch with configuration c
FetchStart(c) == hist'[c].calls = hist[c].calls + 1

\* C24: the hop counter of a configuration never decreases and isRedirect()
\* is true exactly when it is not zero; a fetch started with a configuration
\* that followed a redirect before does not consult the limiter for its
\* original request and starts with the hops already counted, so the
\* redirect-limit error comes once the earlier and the new hops together
\* exceed maxRedirects.
C24_HopCounterNeverReset ==
    [][\A c \in Cfgs :
          /\ opts'[c].totalRedirects >= opts[c].totalRedirects
          /\ IsRedirect(opts'[c]) <=> opts'[c].totalRedirects > 0
          /\ (FetchStart(c) /\ opts[c].totalRedirects > 0)
                => /\ hist'[c].gateCalls = 0
                   /\ ~hist'[c].denied
                   /\ lastGate' = lastGate
                   /\ nextAllowedRequestTimeByHostname' = nextAllowedRequestTimeByHostname
                   /\ hist'[c].startRedirects = opts[c].totalRedirects
          /\ hist'[c].calls > 0
                => /\ opts'[c].totalRedirects >= hist'[c].startRedirects
                   /\ opts'[c].totalRedirects - hist'[c].startRedirects
                         \in {hist'[c].hops - 1, hist'[c].hops}
          /\ hist'[c].limitErr
                => hist'[c].startRedirects + hist'[c].hops > opts'[c].maxRedirects]_vars

\* a configuration with the frequency restriction that followed a redirect
\* before is fetched again: the limiter is not consulted, and the redirect
\* limit is hit although the new hops alone are within maxRedirects
C24_Witness ==
    \E c \in Cfgs :
        /\ hist[c].calls = 2
        /\ hist[c].startRedirects > 0
        /\ opts[c].restrictRequestFrequency
        /\ hist[c].gateCalls = 0
        /\ hist[c].limitErr
        /\ hist[c].hops <= opts[c].maxRedirects
        /\ RedirectLimitError(c)

---------------------------------------------------------------------------
(* What the specification promises of a failed redirect update *)

\* the step is a redirect response of configuration c
RedirectStep(c) == hist'[c].hops = hist[c].hops + 1

\* C25: when updateForRedirect throws (hop budget used up, or invalid target)
\* the configuration is left as it was and the fetch fails without a further
\* exchange; the location and the hop counter only change together, after
\* the new location passed validation.
C25_FailedUpdateLeavesConfig ==
    [][\A c \in Cfgs :
          /\ (RedirectStep(c) /\ hist'[c].updateErr # "")
                => /\ opts'[c] = opts[c]
                   /\ hist'[c].exchanges = hist[c].exchanges
                   /\ ex'[c].pc = "closed"
                   /\ promise'[c].state = "rejected"
                   /\ promise[c].state = "pending" => promise'[c].error = hist'[c].updateErr
                   /\ hist'[c].updateErr = "Redirect limit exceeded" <=> BudgetUsedUp(opts[c])
          /\ opts'[c] # opts[c]
                => /\ RedirectStep(c)
                   /\ hist'[c].updateErr = ""
                   /\ ~BudgetUsedUp(opts[c])
                   /\ opts'[c].totalRedirects = opts[c].totalRedirects + 1
                   /\ AssertValidUrl([protocol |-> opts'[c].url.protocol,
                                      hostname |-> opts'[c].url.hostname,
                                      media |-> FALSE])]_vars

\* after one redirect was followed, the next one names an invalid location:
\* the fetch failed and the counter still counts one hop
C25_Witness ==
    \E c \in Cfgs :
        /\ hist[c].updateErr = "Invalid url"
        /\ hist[c].hops = 2
        /\ hist[c].startRedirects = 0
        /\ opts[c].totalRedirects = 1
        /\ promise[c].state = "rejected"
        /\ promise[c].error = "Invalid url"

---------------------------------------------------------------------------
(* What the specification promises when the start token is missing *)

\* a start token is configured and the body received by c does not hold it
StartTokenAbsent(c) ==
    /\ Responded(c)
    /\ opts[c].startToken # <<>>
    /\ IndexOf(ex[c].body, opts[c].startToken, 0) = -1

\* C26: while the start token is configured and not found the output is empty
\* and neither the stop token nor the byte budget is evaluated (the floor is
\* untouched, the request is not destroyed); when the body does not hold the
\* start token it is never found, the fetch does not fail, and its result is
\* the empty string, for every chunk sequence.
C26_MissingStartYieldsEmpty ==
    \A c \in Cfgs :
        /\ (Responded(c) /\ opts[c].startToken # <<>> /\ ~ex[c].isStartTokenFound)
              => /\ ex[c].retHtml = <<>>
                 /\ ex[c].minStopTokenIndexInAllHtml = 0
                 /\ ex[c].destroyCalls = 0
                 /\ ~ex[c].isRequestDestroyed
                 /\ ex[c].scheduled => ex[c].scheduledHtml = <<>>
        /\ StartTokenAbsent(c)
              => /\ ~ex[c].isStartTokenFound
                 /\ promise[c].state # "rejected"
                 /\ promise[c].state = "fulfilled" => promise[c].html = <<>>

\* a body without the start token, but with the stop token and longer than
\* the byte budget, arrived in several chunks and the fetch resolved with the
\* empty string
C26_Witness ==
    \E c \in Cfgs :
        /\ StartTokenAbsent(c)
        /\ promise[c].state = "fulfilled"
        /\ promise[c].html = <<>>
        /\ opts[c].stopToken # <<>>
        /\ IndexOf(ex[c].body, opts[c].stopToken, 0) >= 0
        /\ opts[c].maxBytes > 0
        /\ Len(ex[c].body) > opts[c].maxBytes
        /\ Len(hist[c].chunkLens) >= 2

=============================================================================
